---- MODULE Spec2Model ----
(***************************************************************************)
(* Log ingestion pipeline: the ingest lambda (ingest/src/main.rs) and its  *)
(* earlier variant (src/main.rs) normalize an HTTP request into a          *)
(* NormalizedLog; the ingest lambda publishes it on the SQS queue; the     *)
(* worker lambda (worker/src/main.rs) takes batches from the queue,        *)
(* sleeps, redacts phone numbers and writes a ProcessedLog to DynamoDB.    *)
(*                                                                         *)
(* Strings are tuples of one-character strings.  JSON text is produced by  *)
(* Render and read back by ParseJson, its inverse on the bounded universe  *)
(* of documents of the model.                                              *)
(***************************************************************************)
EXTENDS Integers, Sequences, FiniteSets, TLC

VARIABLES
    req,          \* ingest / root: the request being handled, or NoRequest
    normalized,   \* func's local `normalized` of the last handled request
    resp,         \* what the last handled request returned to its caller
    queue,        \* the SQS queue: message bodies sent and not yet deleted
    nreq,         \* number of requests received so far
    uuidCount,    \* number of v4 UUIDs drawn so far
    submitted,    \* history: request number -> the request func handled and its result
    batch,        \* worker: the records of the event being handled
    idx,          \* worker: position of the for loop in the batch
    pc,           \* worker: where the handler is
    cur,          \* worker: the `log` handed to process_message
    modified_data, \* worker: process_message's local `modified_data`
    item,         \* worker: the ProcessedLog handed to save_to_dynamodb
    outcome,      \* worker: how each record of the batch ended
    store,        \* the DynamoDB table: key -> item
    now,          \* the wall clock read by Utc::now()
    ninv,         \* number of handler invocations so far
    firstPut      \* message id -> the item its first successful put wrote

vars == <<req, normalized, resp, queue, nreq, uuidCount, submitted, batch, idx, pc,
          cur, modified_data, item, outcome, store, now, ninv, firstPut>>

ingestVars == <<req, normalized, resp, nreq, uuidCount, submitted>>
workerVars == <<batch, idx, pc, cur, modified_data, item, outcome, store, ninv, firstPut>>

(***************************************************************************)
(* Bounds of the model.                                                    *)
(***************************************************************************)
MaxRequests == 2
MaxBatch == 2
MaxInvocations == 2
MaxClock == 1

(***************************************************************************)
(* Option and Result values.                                               *)
(***************************************************************************)
None == [some |-> FALSE]
Some(x) == [some |-> TRUE, v |-> x]
Ok(x) == [ok |-> TRUE, v |-> x]
Err(kind, detail) == [ok |-> FALSE, err |-> kind, detail |-> detail]

(***************************************************************************)
(* String literals of the program, as character tuples.                    *)
(***************************************************************************)
Q == "\""
BS == "\\"
TextPlain == <<"t","e","x","t","/","p","l","a","i","n">>
ApplicationJson == <<"a","p","p","l","i","c","a","t","i","o","n","/","j","s","o","n">>
TenantIdKey == <<"t","e","n","a","n","t","_","i","d">>
LogIdKey == <<"l","o","g","_","i","d">>
TextKey == <<"t","e","x","t">>
SourceKey == <<"s","o","u","r","c","e">>
TimestampKey == <<"t","i","m","e","s","t","a","m","p">>
TagsKey == <<"t","a","g","s">>
MetadataKey == <<"m","e","t","a","d","a","t","a">>
JsonSource == <<"j","s","o","n">>
PlaintextSource == <<"p","l","a","i","n","t","e","x","t">>
UnknownSource == <<"u","n","k","n","o","w","n">>
NilUuid == <<"0","0","0","0","0","0","0","0","-","0","0","0","0","-","0","0","0","0","-",
             "0","0","0","0","-","0","0","0","0","0","0","0","0","0","0","0","0">>
Redacted == <<"[","R","E","D","A","C","T","E","D","]">>

Digits == {"0","1","2","3","4","5","6","7","8","9"}
Letters == {"a","b","c","d","e","f","g","h","i","j","k","l","m","n","o","p","q","r","s",
            "t","u","v","w","x","y","z","A","C","D","E","R","T"}
Punct == {" ", "-", "/", "_", "{", "}", "[", "]", ":", ",", Q, BS}
\* the characters of the model that are visible ASCII; NonAscii and BadByte are not
Ascii == Digits \cup Letters \cup Punct
NonAscii == "\\u00e9"
BadByte == "\\xff"

(***************************************************************************)
(* JSON documents (serde_json): a value is a string, null or an object     *)
(* (an ordered list of key/value members).                                 *)
(***************************************************************************)
JStr(c) == [t |-> "str", v |-> c]
JNull == [t |-> "null", v |-> <<>>]
JObj(members) == [t |-> "obj", v |-> members]
Member(k, val) == [k |-> k, val |-> val]

\* a string's characters as serde_json writes them: quote and backslash escaped
RECURSIVE Escape(_)
Escape(c) ==
    IF c = <<>> THEN <<>>
    ELSE (IF Head(c) \in {Q, BS} THEN <<BS, Head(c)>> ELSE <<Head(c)>>) \o Escape(Tail(c))

\* serde_json::to_string of a JSON value: compact, members in order
RECURSIVE Render(_)
RECURSIVE RenderMembers(_, _)
Render(j) ==
    CASE j.t = "str" -> <<Q>> \o Escape(j.v) \o <<Q>>
      [] j.t = "null" -> <<"n","u","l","l">>
      [] j.t = "obj" -> <<"{">> \o RenderMembers(j.v, 1) \o <<"}">>
RenderMembers(ms, i) ==
    IF i > Len(ms) THEN <<>>
    ELSE (IF i > 1 THEN <<",">> ELSE <<>>)
         \o <<Q>> \o Escape(ms[i].k) \o <<Q, ":">> \o Render(ms[i].val)
         \o RenderMembers(ms, i + 1)

HasMember(j, key) == \E i \in 1..Len(j.v) : j.v[i].k = key
\* the first member with this key
GetMember(j, key) == j.v[CHOOSE i \in 1..Len(j.v) : j.v[i].k = key /\ \A h \in 1..(i-1) : j.v[h].k # key].val

(***************************************************************************)
(* HTTP headers: http::HeaderMap holds lower-cased names; a value is a     *)
(* tuple of bytes that need not be visible ASCII.                          *)
(***************************************************************************)
LowerName(name) ==
    CASE name = "Content-Type" -> "content-type"
      [] name = "X-Tenant-ID" -> "x-tenant-id"
      [] OTHER -> name
HeaderGet(headers, name) ==
    IF LowerName(name) \in DOMAIN headers THEN Some(headers[LowerName(name)]) ELSE None
\* HeaderValue::to_str: Err unless every byte is visible ASCII
ToStr(value) == IF \A i \in 1..Len(value) : value[i] \in Ascii THEN Some(value) ELSE None
\* std::str::from_utf8
FromUtf8(bytes) ==
    IF \A i \in 1..Len(bytes) : bytes[i] # BadByte THEN Ok(bytes) ELSE Err("InvalidUtf8", <<>>)

(***************************************************************************)
(* The inputs of the model: header values, bodies, JSON documents.         *)
(***************************************************************************)
TextHtml == <<"t","e","x","t","/","h","t","m","l">>
Tenant1 == <<"t","1">>
ClientLogId == <<"a">>
PhoneText == <<"5","5","5","-","1","2","3","4">>
PlainText == <<"h","i">>

IncomingDoc(tenant, logId, text) ==
    JObj(<<Member(TenantIdKey, JStr(tenant)), Member(LogIdKey, JStr(logId)),
           Member(TextKey, JStr(text))>>)
DocPhone == IncomingDoc(Tenant1, ClientLogId, PhoneText)
DocPlain == IncomingDoc(Tenant1, ClientLogId, PlainText)
DocEmptyTenant == IncomingDoc(<<>>, ClientLogId, PlainText)
DocNoTenant == JObj(<<Member(LogIdKey, JStr(ClientLogId)), Member(TextKey, JStr(PlainText))>>)
DocNoLogId == JObj(<<Member(TenantIdKey, JStr(Tenant1)), Member(TextKey, JStr(PlainText))>>)
DocNoText == JObj(<<Member(TenantIdKey, JStr(Tenant1)), Member(LogIdKey, JStr(ClientLogId))>>)
BodyDocs == {DocPhone, DocPlain, DocEmptyTenant, DocNoTenant, DocNoLogId, DocNoText}

ContentTypeValues == {TextPlain, ApplicationJson, TextHtml, <<NonAscii>>}
TenantValues == {<<>>, Tenant1, <<NonAscii>>}
BodyValues == {<<BadByte>>, PhoneText} \cup {Render(d) : d \in BodyDocs}

HeaderMaps ==
    {[n \in names |-> IF n = "content-type" THEN ct ELSE tn] :
        names \in SUBSET {"content-type", "x-tenant-id"},
        ct \in ContentTypeValues, tn \in TenantValues}
OptionalBodies == {None} \cup {Some(b) : b \in BodyValues}
\* an HTTP request: its headers and its body, if any
Requests == {[headers |-> h, body |-> b] : h \in HeaderMaps, b \in OptionalBodies}
NoRequest == [headers |-> <<>>, body |-> None, none |-> TRUE]
\* the requests of the whole pipeline: both supported content types, with and
\* without the tenant header, a text body and two JSON bodies with the same log_id
PipelineRequests ==
    {r \in Requests :
        /\ "content-type" \in DOMAIN r.headers
        /\ r.headers["content-type"] \in {TextPlain, ApplicationJson}
        /\ "x-tenant-id" \in DOMAIN r.headers => r.headers["x-tenant-id"] = Tenant1
        /\ r.body \in {Some(PhoneText), Some(Render(DocPhone)), Some(Render(DocPlain))}}

\* the n-th value Uuid::new_v4() returns: never one it returned before
UuidV4(n) == <<"u", <<"1","2","3","4","5","6","7","8","9">>[n]>>

(***************************************************************************)
(* serde's derived Deserialize / Serialize of the program's structs.       *)
(***************************************************************************)
\* serde_json::from_str: the document a text denotes, among those of `docs`
\* (docs: pairs of a text and the document it denotes)
ParseJson(docs, text) ==
    IF \E p \in docs : p[1] = text
    THEN Ok((CHOOSE p \in docs : p[1] = text)[2])
    ELSE Err("Json", <<>>)
BodyTexts == {<<Render(d), d>> : d \in BodyDocs}

IsStr(j, key) == HasMember(j, key) /\ GetMember(j, key).t = "str"
\* Deserialize for IncomingData: three required string fields
DeIncomingData(j) ==
    IF j.t = "obj" /\ IsStr(j, TenantIdKey) /\ IsStr(j, LogIdKey) /\ IsStr(j, TextKey)
    THEN Ok([tenant_id |-> GetMember(j, TenantIdKey).v,
             log_id |-> GetMember(j, LogIdKey).v,
             text |-> GetMember(j, TextKey).v])
    ELSE Err("Json", <<>>)

OptStrJson(o) == IF o.some THEN JStr(o.v) ELSE JNull
\* a HashMap<String, String> with at most one entry, as a JSON object
MapJson(m) == JObj([i \in 1..Cardinality(DOMAIN m) |->
                     LET k == CHOOSE k \in DOMAIN m : TRUE IN Member(k, JStr(m[k]))])
\* Serialize for the ingest NormalizedLog: every field, in declaration order
SerNormalizedLog(log) ==
    JObj(<<Member(TenantIdKey, JStr(log.tenant_id)),
           Member(TextKey, JStr(log.text)),
           Member(SourceKey, OptStrJson(log.source)),
           Member(TimestampKey, OptStrJson(log.timestamp)),
           Member(TagsKey, JNull),
           Member(MetadataKey, IF log.metadata.some THEN MapJson(log.metadata.v) ELSE JNull)>>)

(***************************************************************************)
(* The normalizer of ingest/src/main.rs.                                   *)
(***************************************************************************)
\* handle_json that forgets the metadata
HandleJsonNoMetadata(body) ==
    LET parsed == ParseJson(BodyTexts, body)
        incoming == IF parsed.ok THEN DeIncomingData(parsed.v) ELSE parsed
    IN  IF ~incoming.ok THEN incoming
        ELSE Ok([tenant_id |-> incoming.v.tenant_id,
                 text |-> incoming.v.text,
                 source |-> Some(JsonSource),
                 timestamp |-> None,
                 tags |-> None,
                 metadata |-> None])

HandleJson(body) ==
    LET parsed == ParseJson(BodyTexts, body)
        incoming == IF parsed.ok THEN DeIncomingData(parsed.v) ELSE parsed
    IN  IF ~incoming.ok THEN incoming
        ELSE Ok([tenant_id |-> incoming.v.tenant_id,
                 text |-> incoming.v.text,
                 source |-> Some(JsonSource),
                 timestamp |-> None,
                 tags |-> None,
                 metadata |-> Some(LogIdKey :> incoming.v.log_id)])

TenantHeader(headers) ==
    LET h == HeaderGet(headers, "X-Tenant-ID") IN IF h.some THEN ToStr(h.v) ELSE None

\* handle_plaintext that falls back to a default tenant
HandlePlaintextDefaultTenant(headers, body, uuid) ==
    LET tenant_id == TenantHeader(headers)
    IN  Ok([tenant_id |-> IF tenant_id.some THEN tenant_id.v ELSE UnknownSource,
            text |-> body,
            source |-> Some(PlaintextSource),
            timestamp |-> None,
            tags |-> None,
            metadata |-> Some(LogIdKey :> uuid)])

\* handle_plaintext that stamps the log with a value of the invocation
HandlePlaintextStamped(headers, body, uuid) ==
    LET tenant_id == TenantHeader(headers)
    IN  IF ~tenant_id.some THEN Err("MissingTenant", <<>>)
        ELSE Ok([tenant_id |-> tenant_id.v,
                 text |-> body,
                 source |-> Some(PlaintextSource),
                 timestamp |-> Some(uuid),
                 tags |-> None,
                 metadata |-> Some(LogIdKey :> uuid)])

HandlePlaintext(headers, body, uuid) ==
    LET tenant_id == TenantHeader(headers)
    IN  IF ~tenant_id.some THEN Err("MissingTenant", <<>>)
        ELSE Ok([tenant_id |-> tenant_id.v,
                 text |-> body,
                 source |-> Some(PlaintextSource),
                 timestamp |-> None,
                 tags |-> None,
                 metadata |-> Some(LogIdKey :> uuid)])

ContentType(headers) ==
    LET h == IF HeaderGet(headers, "content-type").some
             THEN HeaderGet(headers, "content-type")
             ELSE HeaderGet(headers, "Content-Type")
    IN  IF h.some THEN ToStr(h.v) ELSE None

\* the match of func on the content type
Normalize(headers, body, uuid) ==
    LET ct == ContentType(headers)
    IN  CASE ct = Some(TextPlain) -> HandlePlaintext(headers, body, uuid)
          [] ct = Some(ApplicationJson) -> HandleJson(body)
          [] ct.some /\ ct.v \notin {TextPlain, ApplicationJson} ->
                Err("UnsupportedContentType", ct.v)
          [] ~ct.some -> Err("MissingContentType", <<>>)

\* event.body().as_ref(): an empty body is no bytes
BodyBytes(body) == IF body.some THEN body.v ELSE <<>>
\* the `?` after the match: the message is built and sent only for Ok
SendsMessage(n) == n.ok
Accepted == [ok |-> TRUE, status |-> "202"]
\* func that does not propagate the error of the send
ResponseIgnoringSend(n, sent) == IF ~n.ok THEN n ELSE Accepted
\* what func returns: the error of the normalization or of the send, else 202
Response(n, sent) ==
    IF ~n.ok THEN n ELSE IF sent THEN Accepted ELSE Err("SendFailed", <<>>)

(***************************************************************************)
(* The normalizer of src/main.rs: it returns the NormalizedLog.            *)
(***************************************************************************)
RootHandlePlaintext(headers, body) ==
    LET tenant_id == TenantHeader(headers)
    IN  IF ~tenant_id.some THEN Err("MissingTenant", <<>>)
        ELSE Ok([tenant_id |-> tenant_id.v,
                 text |-> body,
                 source |-> Some(PlaintextSource),
                 timestamp |-> None,
                 tags |-> None,
                 metadata |-> None])

RootNormalize(headers, body) ==
    LET ct == ContentType(headers)
    IN  CASE ct = Some(TextPlain) -> RootHandlePlaintext(headers, body)
          [] ct = Some(ApplicationJson) -> HandleJson(body)
          [] ct.some /\ ct.v \notin {TextPlain, ApplicationJson} ->
                Err("UnsupportedContentType", ct.v)
          [] ~ct.some -> Err("MissingContentType", <<>>)

(***************************************************************************)
(* The worker: decoding a message, the simulated delay, the redaction.     *)
(***************************************************************************)
OptStrMember(j, key) == IF IsStr(j, key) THEN Some(GetMember(j, key).v) ELSE None
OptOk(j, key, kinds) == ~HasMember(j, key) \/ GetMember(j, key).t \in kinds
MapOfJson(j) == [k \in {j.v[i].k : i \in 1..Len(j.v)} |-> GetMember(j, k).v]
\* Deserialize for the worker's NormalizedLog: tenant_id and text required,
\* an Option field absent or null is None, unknown fields are ignored
DeNormalizedLog(j) ==
    IF /\ j.t = "obj"
       /\ IsStr(j, TenantIdKey)
       /\ IsStr(j, TextKey)
       /\ OptOk(j, SourceKey, {"str", "null"})
       /\ OptOk(j, TimestampKey, {"str", "null"})
       /\ OptOk(j, TagsKey, {"null"})
       /\ OptOk(j, MetadataKey, {"obj", "null"})
       /\ (HasMember(j, MetadataKey) /\ GetMember(j, MetadataKey).t = "obj"
             => \A i \in 1..Len(GetMember(j, MetadataKey).v) :
                    GetMember(j, MetadataKey).v[i].val.t = "str")
    THEN Ok([tenant_id |-> GetMember(j, TenantIdKey).v,
             text |-> GetMember(j, TextKey).v,
             source |-> OptStrMember(j, SourceKey),
             timestamp |-> OptStrMember(j, TimestampKey),
             tags |-> None,
             metadata |-> IF HasMember(j, MetadataKey) /\ GetMember(j, MetadataKey).t = "obj"
                          THEN Some(MapOfJson(GetMember(j, MetadataKey)))
                          ELSE None])
    ELSE Err("Json", <<>>)

\* every NormalizedLog the two normalizers can produce from the model's inputs
LogUniverse ==
    {n.v : n \in {x \in {Normalize(r.headers, BodyBytes(r.body), UuidV4(k)) :
                            r \in Requests, k \in 1..(MaxRequests + 1)} : x.ok}}

\* the texts the worker is given: up to MaxParts pieces put together, and the
\* examples of the redaction
MaxParts == 3
Pieces == {PhoneText, <<"5","5","5","-">>, <<"5">>, <<"a">>, <<"_">>, <<" ">>, <<"-">>}
RECURSIVE Joined(_)
Joined(n) ==
    IF n = 0 THEN {<<>>}
    ELSE Joined(n - 1) \cup {t \o p : t \in Joined(n - 1), p \in Pieces}
CallNow == <<"c","a","l","l"," ">> \o PhoneText \o <<" ","n","o","w">>
LongPhone == <<"5","5","5","-","5","5","5","-","1","2","3","4">>
LongDigitRun == <<"1","2","3","4","5","-","1","2","3","4">>
CallPhone == <<"c","a","l","l"," ">> \o PhoneText
RedactionTexts == Joined(MaxParts) \cup {CallNow, LongPhone, LongDigitRun, CallPhone}

Tenant2 == <<"t","2">>
\* a NormalizedLog as another producer may send it
WorkerLog(tenant, text, source, metadata) ==
    [tenant_id |-> tenant, text |-> text, source |-> source, timestamp |-> None,
     tags |-> None, metadata |-> metadata]
\* metadata: none, an empty map, a log_id, an entry that is not log_id
MetadataValues ==
    {None, Some(<<>>), Some(LogIdKey :> ClientLogId), Some(SourceKey :> ClientLogId)}
\* one log for each text
TextLogs ==
    {WorkerLog(Tenant1, t, Some(JsonSource), Some(LogIdKey :> ClientLogId)) :
        t \in RedactionTexts}
\* logs of two tenants, with and without source and log_id
TenantLogs ==
    {WorkerLog(tn, t, s, m) :
        tn \in {Tenant1, Tenant2}, t \in {PhoneText, PlainText},
        s \in {None, Some(PlaintextSource)}, m \in MetadataValues}
\* the logs two records of one batch are drawn from
PairLogs ==
    {WorkerLog(tn, t, Some(PlaintextSource), m) :
        tn \in {Tenant1, Tenant2}, t \in {PhoneText, PlainText},
        m \in {None, Some(LogIdKey :> ClientLogId)}}
MessageDocs ==
    BodyDocs \cup {SerNormalizedLog(l) : l \in LogUniverse \cup TextLogs \cup TenantLogs \cup PairLogs}
MessageTexts == {<<Render(d), d>> : d \in MessageDocs}

\* serde_json::from_str::<NormalizedLog>(&body)
DecodeMessage(body) ==
    LET parsed == ParseJson(MessageTexts, body)
    IN  IF parsed.ok THEN DeNormalizedLog(parsed.v) ELSE parsed

\* simulate_heavy_processing: the sleep, in milliseconds
SleepMsPerChar == 50
SleepMs(text) == Len(text) * SleepMsPerChar

\* \w and \b of the regex crate
IsWordChar(c) == c \in Digits \cup Letters \cup {"_", NonAscii}
WordAt(s, p) == p >= 1 /\ p <= Len(s) /\ IsWordChar(s[p])
Boundary(s, p) == WordAt(s, p - 1) # WordAt(s, p)
DigitsAt(s, p, n) == p + n - 1 <= Len(s) /\ \A i \in p..(p + n - 1) : s[i] \in Digits
HyphenAt(s, p) == p <= Len(s) /\ s[p] = "-"
\* the pattern without its two \b
MatchAtNoBoundary(s, p) ==
    IF DigitsAt(s, p, 3) /\ HyphenAt(s, p + 3) /\ DigitsAt(s, p + 4, 4) THEN 8
    ELSE IF DigitsAt(s, p, 3) /\ HyphenAt(s, p + 3) /\ DigitsAt(s, p + 4, 3)
            /\ HyphenAt(s, p + 7) /\ DigitsAt(s, p + 8, 4) THEN 12
    ELSE 0
\* the length of the match of \b(?:\d{3}-\d{4}|\d{3}-\d{3}-\d{4})\b starting at p, or 0
MatchAt(s, p) ==
    IF ~Boundary(s, p) THEN 0
    ELSE IF DigitsAt(s, p, 3) /\ HyphenAt(s, p + 3) /\ DigitsAt(s, p + 4, 4)
            /\ Boundary(s, p + 8) THEN 8
    ELSE IF DigitsAt(s, p, 3) /\ HyphenAt(s, p + 3) /\ DigitsAt(s, p + 4, 3)
            /\ HyphenAt(s, p + 7) /\ DigitsAt(s, p + 8, 4) /\ Boundary(s, p + 12) THEN 12
    ELSE 0
RECURSIVE ReplaceAllFrom(_, _)
ReplaceAllFrom(s, p) ==
    IF p > Len(s) THEN <<>>
    ELSE IF MatchAt(s, p) > 0 THEN Redacted \o ReplaceAllFrom(s, p + MatchAt(s, p))
    ELSE <<s[p]>> \o ReplaceAllFrom(s, p + 1)
\* a redaction that replaces the first match only (Regex::replace)
RedactFirstOnly(text) ==
    LET starts == {p \in 1..Len(text) : MatchAt(text, p) > 0}
    IN  IF starts = {} THEN text
        ELSE LET p == CHOOSE q \in starts : \A r \in starts : q <= r
             IN  SubSeq(text, 1, p - 1) \o Redacted
                 \o SubSeq(text, p + MatchAt(text, p), Len(text))
redact_phone_numbers(text) == ReplaceAllFrom(text, 1)

\* an identity resolution that makes up an identifier when the log has none
ResolveLogIdFresh(log) ==
    IF log.metadata.some /\ LogIdKey \in DOMAIN log.metadata.v
    THEN log.metadata.v[LogIdKey]
    ELSE UuidV4(1)
\* log.metadata.as_ref().and_then(|m| m.get("log_id")).cloned().unwrap_or_else(nil)
ResolveLogId(log) ==
    IF log.metadata.some /\ LogIdKey \in DOMAIN log.metadata.v
    THEN log.metadata.v[LogIdKey]
    ELSE NilUuid

\* a ProcessedLog whose original_text is the redacted text
AssembleRedactedOriginal(log, modified, clock) ==
    [tenant_id |-> log.tenant_id,
     log_id |-> ResolveLogId(log),
     source |-> IF log.source.some THEN log.source.v ELSE UnknownSource,
     original_text |-> modified,
     modified_data |-> modified,
     processed_at |-> clock]
\* a ProcessedLog that takes its tenant from the first record of the batch
AssembleFromFirst(log, modified, clock) ==
    LET first == IF batch # <<>> /\ batch[1].body.some
                 THEN DecodeMessage(batch[1].body.v) ELSE Err("NoBody", <<>>)
    IN  [tenant_id |-> IF first.ok THEN first.v.tenant_id ELSE log.tenant_id,
         log_id |-> ResolveLogId(log),
         source |-> IF log.source.some THEN log.source.v ELSE UnknownSource,
         original_text |-> log.text,
         modified_data |-> modified,
         processed_at |-> clock]
\* a ProcessedLog stamped with a fixed instant
AssembleAtEpoch(log, modified, clock) ==
    [tenant_id |-> log.tenant_id,
     log_id |-> ResolveLogId(log),
     source |-> IF log.source.some THEN log.source.v ELSE UnknownSource,
     original_text |-> log.text,
     modified_data |-> modified,
     processed_at |-> 0]
\* the ProcessedLog of process_message; processed_at is the instant of Utc::now()
Assemble(log, modified, clock) ==
    [tenant_id |-> log.tenant_id,
     log_id |-> ResolveLogId(log),
     source |-> IF log.source.some THEN log.source.v ELSE UnknownSource,
     original_text |-> log.text,
     modified_data |-> modified,
     processed_at |-> clock]

\* a table whose sort key is processed_at
ItemKeyByTime(it) == <<it.tenant_id, it.processed_at>>
\* the table's primary key: partition key tenant_id, sort key log_id
ItemKey(it) == <<it.tenant_id, it.log_id>>
\* PutItem: the item replaces whatever the table holds under its key
PutItem(table, it) ==
    [k \in DOMAIN table \cup {ItemKey(it)} |-> IF k = ItemKey(it) THEN it ELSE table[k]]

\* a loop that gives up the batch at the first record it cannot read
ContinueAbortsBatch(i, n) == n + 1
\* where the for loop goes after a record without body or that does not decode
Continue(i, n) == i + 1
\* a loop that stays on the record it has just processed
AfterProcessRetry(i, n) == i
\* where the for loop goes after process_message returned
AfterProcess(i, n) == i + 1

(***************************************************************************)
(* The state machine.                                                      *)
(***************************************************************************)
\* bodies other producers put on the queue: none, no JSON, JSON without metadata
ForeignBodies == {None, Some(PhoneText), Some(Render(DocPhone))}
\* an SQS message: its id (who sent it, and a number) and its body
Message(sender, n, body) == [id |-> <<sender, n>>, body |-> body]

Init ==
    /\ req = NoRequest
    /\ normalized = None
    /\ resp = None
    /\ queue = <<>>
    /\ nreq = 0
    /\ uuidCount = 0
    /\ submitted = <<>>
    /\ batch = <<>>
    /\ idx = 0
    /\ pc = "idle"
    /\ cur = None
    /\ modified_data = None
    /\ item = None
    /\ outcome = <<>>
    /\ store = <<>>
    /\ now = 0
    /\ ninv = 0
    /\ firstPut = <<>>

\* a request arrives at the API gateway
ReceiveRequest(r) ==
    /\ req = NoRequest
    /\ nreq < MaxRequests
    /\ req' = r
    /\ nreq' = nreq + 1
    /\ normalized' = None
    /\ resp' = None
    /\ UNCHANGED <<queue, uuidCount, submitted, now>>
    /\ UNCHANGED workerVars

\* ingest/src/main.rs func: normalize, serialize, send to SQS, answer;
\* `record` says whether the history of the submissions is kept
IngestFunc(record) ==
    /\ req # NoRequest
    /\ LET body_str == FromUtf8(BodyBytes(req.body))
           n == IF body_str.ok
                THEN Normalize(req.headers, body_str.v, UuidV4(uuidCount + 1))
                ELSE body_str
       IN  /\ \E sendOk \in (IF SendsMessage(n) THEN BOOLEAN ELSE {FALSE}) :
                /\ queue' = IF SendsMessage(n) /\ sendOk
                            THEN Append(queue,
                                        Message("ingest", nreq,
                                                Some(Render(SerNormalizedLog(n.v)))))
                            ELSE queue
                /\ resp' = Some(Response(n, SendsMessage(n) /\ sendOk))
           /\ normalized' = Some(n)
           /\ uuidCount' = IF n.ok /\ n.v.source = Some(PlaintextSource)
                           THEN uuidCount + 1 ELSE uuidCount
           /\ submitted' = IF record
                            THEN submitted @@ (nreq :> [req |-> req, normalized |-> n])
                            ELSE submitted
    /\ req' = NoRequest
    /\ UNCHANGED <<nreq, now>>
    /\ UNCHANGED workerVars

\* src/main.rs func: normalize and return the NormalizedLog; the body of its
\* event is a String, so it is never handed bytes that are not UTF-8
RootFunc ==
    /\ req # NoRequest
    /\ FromUtf8(BodyBytes(req.body)).ok
    /\ LET n == IF req.body.some THEN RootNormalize(req.headers, req.body.v)
                ELSE Err("MissingBody", <<>>)
       IN  /\ normalized' = Some(n)
           /\ resp' = Some(n)
    /\ req' = NoRequest
    /\ UNCHANGED <<queue, nreq, uuidCount, submitted, now>>
    /\ UNCHANGED workerVars

\* another producer sends a message to the queue
ForeignSend(b) ==
    /\ nreq < MaxRequests
    /\ nreq' = nreq + 1
    /\ queue' = Append(queue, Message("other", nreq + 1, b))
    /\ UNCHANGED <<req, normalized, resp, uuidCount, submitted, now>>
    /\ UNCHANGED workerVars

\* the batches SQS can hand to one invocation: distinct messages of the queue
Batches ==
    UNION {{[i \in 1..n |-> queue[g[i]]] :
                g \in {f \in [1..n -> 1..Len(queue)] :
                          \A a, b \in 1..n : a # b => f[a] # f[b]}} :
            n \in 1..MaxBatch}

\* the Lambda runtime invokes handler with a batch
Deliver(b) ==
    /\ pc = "idle"
    /\ ninv < MaxInvocations
    /\ batch' = b
    /\ idx' = 1
    /\ pc' = "loop"
    /\ outcome' = [i \in 1..Len(b) |-> "received"]
    /\ ninv' = ninv + 1
    /\ UNCHANGED <<cur, modified_data, item, store, firstPut, queue, now>>
    /\ UNCHANGED ingestVars

\* one turn of the for loop up to the sleep of process_message
HandlerStep ==
    /\ pc = "loop"
    /\ idx <= Len(batch)
    /\ LET body == batch[idx].body
           log == IF body.some THEN DecodeMessage(body.v) ELSE Err("NoBody", <<>>)
       IN  IF log.ok
           THEN /\ cur' = Some(log.v)
                /\ pc' = "sleeping"
                /\ outcome' = [outcome EXCEPT ![idx] = "decoded"]
                /\ idx' = idx
           ELSE /\ cur' = None
                /\ pc' = "loop"
                /\ outcome' = [outcome EXCEPT ![idx] =
                                  IF body.some THEN "decode_failed" ELSE "missing_body"]
                /\ idx' = Continue(idx, Len(batch))
    /\ UNCHANGED <<batch, modified_data, item, store, ninv, firstPut, queue, now>>
    /\ UNCHANGED ingestVars

\* simulate_heavy_processing returns: the sleep is over
SleepDone ==
    /\ pc = "sleeping"
    /\ now' = now + SleepMs(cur.v.text)
    /\ pc' = "redacting"
    /\ UNCHANGED <<batch, idx, cur, modified_data, item, outcome, store, ninv, firstPut,
                   queue>>
    /\ UNCHANGED ingestVars

\* let modified_data = redact_phone_numbers(&log.text)
Redact ==
    /\ pc = "redacting"
    /\ modified_data' = Some(redact_phone_numbers(cur.v.text))
    /\ pc' = "assembling"
    /\ outcome' = [outcome EXCEPT ![idx] = "redacted"]
    /\ UNCHANGED <<batch, idx, cur, item, store, ninv, firstPut, queue, now>>
    /\ UNCHANGED ingestVars

\* resolve the log_id, build the ProcessedLog at Utc::now(), start the write
AssembleLog ==
    /\ pc = "assembling"
    /\ item' = Some(Assemble(cur.v, modified_data.v, now))
    /\ pc' = "saving"
    /\ outcome' = [outcome EXCEPT ![idx] = "assembled"]
    /\ UNCHANGED <<batch, idx, cur, modified_data, store, ninv, firstPut, queue, now>>
    /\ UNCHANGED ingestVars

\* save_to_dynamodb returns Ok
PutItemOk ==
    /\ pc = "saving"
    /\ store' = PutItem(store, item.v)
    /\ firstPut' = IF batch[idx].id \in DOMAIN firstPut THEN firstPut
                   ELSE firstPut @@ (batch[idx].id :> item.v)
    /\ outcome' = [outcome EXCEPT ![idx] = "persisted"]
    /\ idx' = AfterProcess(idx, Len(batch))
    /\ pc' = "loop"
    /\ cur' = None
    /\ modified_data' = None
    /\ item' = None
    /\ UNCHANGED <<batch, ninv, queue, now>>
    /\ UNCHANGED ingestVars

\* save_to_dynamodb returns Err: logged, process_message still returns Ok
PutItemErr ==
    /\ pc = "saving"
    /\ outcome' = [outcome EXCEPT ![idx] = "persistence_failed"]
    /\ idx' = AfterProcess(idx, Len(batch))
    /\ pc' = "loop"
    /\ cur' = None
    /\ modified_data' = None
    /\ item' = None
    /\ UNCHANGED <<batch, store, ninv, firstPut, queue, now>>
    /\ UNCHANGED ingestVars

\* handler returns Ok(()): the runtime deletes the batch from the queue, but
\* the queue delivers at least once, so a message may stay for another delivery
HandlerReturn(again) ==
    /\ pc = "loop"
    /\ idx > Len(batch)
    /\ queue' = SelectSeq(queue, LAMBDA m :
                    (\A i \in 1..Len(batch) : batch[i].id # m.id) \/ m.id \in again)
    /\ pc' = "idle"
    /\ batch' = <<>>
    /\ idx' = 0
    /\ outcome' = <<>>
    /\ UNCHANGED <<cur, modified_data, item, store, ninv, firstPut, now>>
    /\ UNCHANGED ingestVars

\* time passes
Tick ==
    /\ now < MaxClock
    /\ now' = now + 1
    /\ UNCHANGED <<queue>>
    /\ UNCHANGED ingestVars
    /\ UNCHANGED workerVars

Next ==
    \/ \E r \in PipelineRequests : ReceiveRequest(r)
    \/ IngestFunc(TRUE)
    \/ RootFunc
    \/ \E b \in ForeignBodies : ForeignSend(b)
    \/ \E b \in Batches : Deliver(b)
    \/ HandlerStep
    \/ SleepDone
    \/ Redact
    \/ AssembleLog
    \/ PutItemOk
    \/ PutItemErr
    \/ \E again \in SUBSET {batch[i].id : i \in 1..Len(batch)} : HandlerReturn(again)
    \/ Tick

Spec == Init /\ [][Next]_vars

\* the two normalizers alone, on every request of the model
NormalizerNext ==
    \/ \E r \in Requests : ReceiveRequest(r)
    \/ IngestFunc(FALSE)
    \/ RootFunc

NormalizerSpec == Init /\ [][NormalizerNext]_vars

\* the same, with the history of the submissions
RepeatedNext ==
    \/ \E r \in Requests : ReceiveRequest(r)
    \/ IngestFunc(TRUE)
    \/ RootFunc

RepeatedSpec == Init /\ [][RepeatedNext]_vars

\* the worker alone, on a queue other producers filled: one record of any
\* body, or two records of two tenants
WorkerBodies ==
    {None, Some(PhoneText)}
        \cup {Some(Render(SerNormalizedLog(l))) : l \in TextLogs \cup TenantLogs}
PairBodies == {None, Some(PhoneText)} \cup {Some(Render(SerNormalizedLog(l))) : l \in PairLogs}
WorkerQueues ==
    {<<Message("other", 1, b)>> : b \in WorkerBodies}
        \cup {<<Message("other", 1, b1), Message("other", 2, b2)>> : b1, b2 \in PairBodies}

WorkerInit ==
    /\ req = NoRequest
    /\ normalized = None
    /\ resp = None
    /\ queue \in WorkerQueues
    /\ nreq = Len(queue)
    /\ uuidCount = 0
    /\ submitted = <<>>
    /\ batch = <<>>
    /\ idx = 0
    /\ pc = "idle"
    /\ cur = None
    /\ modified_data = None
    /\ item = None
    /\ outcome = <<>>
    /\ store = <<>>
    /\ now = 0
    /\ ninv = 0
    /\ firstPut = <<>>

WorkerNext ==
    \/ \E b \in Batches : Deliver(b)
    \/ HandlerStep
    \/ SleepDone
    \/ Redact
    \/ AssembleLog
    \/ PutItemOk
    \/ PutItemErr
    \/ \E again \in SUBSET {batch[i].id : i \in 1..Len(batch)} : HandlerReturn(again)

WorkerSpec == WorkerInit /\ [][WorkerNext]_vars

(***************************************************************************)
(* Properties of the normalizers.                                          *)
(***************************************************************************)
\* a step in which a normalizer handles the pending request
Handled == req # NoRequest /\ req' = NoRequest
HasHeader(r, name) == name \in DOMAIN r.headers
HeaderIs(r, name, value) == HasHeader(r, name) /\ r.headers[name] = value
ValidUtf8(r) == \A i \in 1..Len(BodyBytes(r.body)) : BodyBytes(r.body)[i] # BadByte
\* the documents with the three fields of the schema {tenant_id, log_id, text}
SchemaDocs ==
    {d \in BodyDocs : {TenantIdKey, LogIdKey, TextKey} \subseteq {d.v[i].k : i \in 1..Len(d.v)}}
NormalizationFails(r) ==
    \/ ~HasHeader(r, "content-type")
    \/ r.headers["content-type"] \notin {TextPlain, ApplicationJson}
    \/ ~ValidUtf8(r)
    \/ /\ HeaderIs(r, "content-type", ApplicationJson)
       /\ BodyBytes(r.body) \notin {Render(d) : d \in SchemaDocs}
    \/ /\ HeaderIs(r, "content-type", TextPlain)
       /\ ~HasHeader(r, "x-tenant-id")

\* C1: a request whose normalization fails (no content type, an unsupported
\* one, a body that is not UTF-8, a JSON body outside the schema, text/plain
\* without X-Tenant-ID) gets an error, never the 202, and leaves the queue as
\* it was.
C1_RejectedRequestPublishesNothing ==
    [][Handled /\ NormalizationFails(req)
         => /\ queue' = queue
            /\ resp'.some
            /\ ~resp'.v.ok
            /\ resp'.v # Accepted]_vars
\* a request was rejected for its missing tenant header while a message
\* accepted earlier is still on the queue
C1_Witness ==
    /\ resp.some
    /\ ~resp.v.ok
    /\ resp.v.err = "MissingTenant"
    /\ Len(queue) = 1

\* C2: every NormalizedLog published to the queue has a non-empty tenant_id,
\* and its source is "json" exactly when the request was application/json and
\* "plaintext" exactly when it was text/plain.
C2_PublishedLogWellFormed ==
    [][Handled /\ Len(queue') = Len(queue) + 1
         => LET log == normalized'.v.v
            IN  /\ log.tenant_id # <<>>
                /\ log.source = Some(JsonSource)
                     <=> HeaderIs(req, "content-type", ApplicationJson)
                /\ log.source = Some(PlaintextSource)
                     <=> HeaderIs(req, "content-type", TextPlain)]_vars

\* C7: a request puts at most one message on the queue, and the 202 is
\* returned only when the message was sent.
C7_AtMostOneMessageAndAcceptedAfterSend ==
    [][Handled
         => /\ Len(queue') <= Len(queue) + 1
            /\ SubSeq(queue', 1, Len(queue)) = queue
            /\ resp' = Some(Accepted) => Len(queue') = Len(queue) + 1]_vars
\* two requests were accepted, each with its message on the queue
C7_Witness == resp = Some(Accepted) /\ Len(queue) = 2 /\ nreq = 2

\* C8: text/plain selects the plaintext branch, application/json the json
\* branch, every other present value is rejected as unsupported with the value
\* in the error, an absent header is rejected as missing.
C8_ClosedDispatch ==
    [][Handled /\ ValidUtf8(req) /\ req.body.some
         => LET n == normalized'.v
            IN  IF ~HasHeader(req, "content-type")
                THEN ~n.ok /\ n.err = "MissingContentType"
                ELSE IF req.headers["content-type"] = TextPlain
                THEN \/ n.ok /\ n.v.source = Some(PlaintextSource)
                     \/ ~n.ok /\ n.err = "MissingTenant"
                ELSE IF req.headers["content-type"] = ApplicationJson
                THEN \/ n.ok /\ n.v.source = Some(JsonSource)
                     \/ ~n.ok /\ n.err = "Json"
                ELSE /\ ~n.ok
                     /\ n.err = "UnsupportedContentType"
                     /\ n.detail = req.headers["content-type"]]_vars

\* the log_ids of the messages on the queue
QueuedLogIds ==
    {ResolveLogId(DecodeMessage(queue[i].body.v).v) :
        i \in {h \in 1..Len(queue) : queue[h].body.some /\ DecodeMessage(queue[h].body.v).ok}}

\* C9: a text/plain request with a tenant header is normalized to a log with
\* that tenant, source "plaintext", the body as text, no timestamp, no tags and
\* a fresh non-empty log_id in the metadata.
C9_PlaintextNormalization ==
    [][(/\ Handled
        /\ HeaderIs(req, "content-type", TextPlain)
        /\ HasHeader(req, "x-tenant-id")
        /\ ValidUtf8(req)
        /\ req.body.some)
         => LET n == normalized'.v
            IN  /\ n.ok
                /\ n.v.tenant_id = req.headers["x-tenant-id"]
                /\ n.v.source = Some(PlaintextSource)
                /\ n.v.text = req.body.v
                /\ n.v.timestamp = None
                /\ n.v.tags = None
                /\ n.v.metadata.some
                /\ LogIdKey \in DOMAIN n.v.metadata.v
                /\ n.v.metadata.v[LogIdKey] # <<>>
                /\ n.v.metadata.v[LogIdKey] \notin QueuedLogIds]_vars

\* C10: an application/json request whose body is {tenant_id, log_id, text} is
\* normalized to a log with that tenant and text, source "json" and the
\* client's log_id in the metadata; a body without one of the fields is
\* rejected.
C10_JsonNormalization ==
    [][(/\ Handled
        /\ HeaderIs(req, "content-type", ApplicationJson)
        /\ req.body.some)
         => \A d \in BodyDocs :
              req.body.v = Render(d)
                => LET n == normalized'.v
                   IN  IF d \in SchemaDocs
                       THEN /\ n.ok
                            /\ n.v.tenant_id = GetMember(d, TenantIdKey).v
                            /\ n.v.text = GetMember(d, TextKey).v
                            /\ n.v.source = Some(JsonSource)
                            /\ n.v.metadata = Some(LogIdKey :> GetMember(d, LogIdKey).v)
                       ELSE ~n.ok /\ queue' = queue]_vars
\* a JSON request with a phone number in its text was normalized
C10_Witness ==
    /\ normalized.some
    /\ normalized.v.ok
    /\ normalized.v.v.source = Some(JsonSource)
    /\ normalized.v.v.text = PhoneText
    /\ normalized.v.v.metadata = Some(LogIdKey :> ClientLogId)

(***************************************************************************)
(* Properties of the worker.                                               *)
(***************************************************************************)
\* C3: every record of a batch the loop has passed was attempted, whatever
\* happened to the records before it: a record without body or that does not
\* decode was skipped, every other one went through to the store write.
C3_EveryRecordAttempted ==
    \A i \in 1..Len(batch) :
        i < idx =>
            IF ~batch[i].body.some THEN outcome[i] = "missing_body"
            ELSE IF ~DecodeMessage(batch[i].body.v).ok THEN outcome[i] = "decode_failed"
            ELSE outcome[i] \in {"persisted", "persistence_failed"}
\* the loop is over a batch of two whose first record failed and whose second
\* record was persisted
C3_Witness ==
    /\ pc = "loop"
    /\ Len(batch) = 2
    /\ idx > Len(batch)
    /\ outcome[1] \in {"missing_body", "decode_failed", "persistence_failed"}
    /\ outcome[2] = "persisted"

\* a step in which the write of the current record succeeds
PutSucceeds == pc = "saving" /\ pc' = "loop" /\ outcome'[idx] = "persisted"
SansTime(it) ==
    [tenant_id |-> it.tenant_id, log_id |-> it.log_id, source |-> it.source,
     original_text |-> it.original_text, modified_data |-> it.modified_data]

\* C4 as claimed: when a message is processed successfully again, the store
\* holds under its key the item of its first processing, every field the
\* same, and no further item.
C4_DuplicateLeavesSameItem ==
    [][PutSucceeds /\ batch[idx].id \in DOMAIN firstPut
         => /\ DOMAIN store' = DOMAIN store
            /\ ItemKey(firstPut[batch[idx].id]) \in DOMAIN store'
            /\ store'[ItemKey(firstPut[batch[idx].id])] = firstPut[batch[idx].id]]_vars
\* C4 as amended: the same, for every field but processed_at.
C4_DuplicateLeavesSameItemButTime ==
    [][PutSucceeds /\ batch[idx].id \in DOMAIN firstPut
         => /\ DOMAIN store' = DOMAIN store
            /\ ItemKey(firstPut[batch[idx].id]) \in DOMAIN store'
            /\ SansTime(store'[ItemKey(firstPut[batch[idx].id])])
                 = SansTime(firstPut[batch[idx].id])]_vars
\* a message was written a second time, later than the first
C4_Witness ==
    /\ pc = "loop"
    /\ idx > 1
    /\ outcome[idx - 1] = "persisted"
    /\ batch[idx - 1].id \in DOMAIN firstPut
    /\ ItemKey(firstPut[batch[idx - 1].id]) \in DOMAIN store
    /\ store[ItemKey(firstPut[batch[idx - 1].id])].processed_at
         > firstPut[batch[idx - 1].id].processed_at

\* C5: two different accepted submissions are stored under different
\* (tenant_id, log_id) keys.
C5_SubmissionsHaveDistinctKeys ==
    \A a, b \in DOMAIN firstPut :
        a # b /\ a[1] = "ingest" /\ b[1] = "ingest"
            => ItemKey(firstPut[a]) # ItemKey(firstPut[b])

\* C6: while a record of the batch is in its simulated delay, the processing
\* of a later record of the batch can start.
C6_DelayDoesNotSerialize ==
    \A i, j \in 1..Len(batch) :
        (/\ i < j
         /\ pc = "sleeping"
         /\ idx = i
         /\ SleepMs(cur.v.text) > 0
         /\ outcome[j] = "received")
            => ENABLED (Next /\ outcome'[j] # "received")

(***************************************************************************)
(* Properties of the redaction.                                            *)
(***************************************************************************)
\* the two shapes, DDD-DDDD and DDD-DDD-DDDD, at position p
ShortShapeAt(s, p) ==
    /\ p >= 1
    /\ p + 7 <= Len(s)
    /\ \A i \in 0..7 : IF i = 3 THEN s[p + i] = "-" ELSE s[p + i] \in Digits
LongShapeAt(s, p) ==
    /\ p >= 1
    /\ p + 11 <= Len(s)
    /\ \A i \in 0..11 : IF i \in {3, 7} THEN s[p + i] = "-" ELSE s[p + i] \in Digits
\* a word boundary: exactly one of the two neighbours is a word character
WordEdge(s, p) ==
    (p > 1 /\ IsWordChar(s[p - 1])) # (p <= Len(s) /\ IsWordChar(s[p]))
\* the boundary-delimited candidates of a text: start and length
Candidates(s) ==
    {m \in (1..Len(s)) \X {8, 12} :
        /\ IF m[2] = 8 THEN ShortShapeAt(s, m[1]) ELSE LongShapeAt(s, m[1])
        /\ WordEdge(s, m[1])
        /\ WordEdge(s, m[1] + m[2])}
\* the reference redaction: the leftmost candidate not before `from` wins, the
\* scan goes on after it, every other character is copied
RECURSIVE Reference(_, _)
Reference(s, from) ==
    LET c == {m \in Candidates(s) : m[1] >= from}
    IN  IF c = {} THEN SubSeq(s, from, Len(s))
        ELSE LET m == CHOOSE x \in c :
                        \A o \in c : x[1] < o[1] \/ (x[1] = o[1] /\ x[2] <= o[2])
             IN  SubSeq(s, from, m[1] - 1) \o Redacted \o Reference(s, m[1] + m[2])

\* C11: redact_phone_numbers is total and equal to the reference redaction;
\* "call 555-1234 now" gives "call [REDACTED] now", "555-555-1234" gives one
\* "[REDACTED]", "12345-1234" and the empty text are unchanged.
C11_RedactionIsReference ==
    /\ pc = "redacting" => ENABLED Redact
    /\ modified_data.some =>
        /\ modified_data.v = Reference(cur.v.text, 1)
        /\ cur.v.text = CallNow =>
              modified_data.v = <<"c","a","l","l"," ">> \o Redacted \o <<" ","n","o","w">>
        /\ cur.v.text = LongPhone => modified_data.v = Redacted
        /\ cur.v.text = LongDigitRun => modified_data.v = LongDigitRun
        /\ cur.v.text = <<>> => modified_data.v = <<>>
\* "call 555-1234 now" was redacted
C11_Witness ==
    /\ cur.some
    /\ cur.v.text = CallNow
    /\ modified_data = Some(<<"c","a","l","l"," ">> \o Redacted \o <<" ","n","o","w">>)

\* C12: redacting the redacted text changes nothing.
C12_RedactionIdempotent ==
    modified_data.some => redact_phone_numbers(modified_data.v) = modified_data.v
\* a text with two phone numbers was redacted to two markers
C12_Witness ==
    /\ cur.some
    /\ cur.v.text = PhoneText \o <<" ">> \o PhoneText
    /\ modified_data = Some(Redacted \o <<" ">> \o Redacted)

\* a phone shape whose neighbours are not digits
PhoneShapeAt(s, p) ==
    \E n \in {8, 12} :
        /\ IF n = 8 THEN ShortShapeAt(s, p) ELSE LongShapeAt(s, p)
        /\ p > 1 => s[p - 1] \notin Digits
        /\ p + n <= Len(s) => s[p + n] \notin Digits
\* C19: the modified_data of a ProcessedLog holds no DDD-DDDD or DDD-DDD-DDDD
\* whose neighbours are non-digits or the ends of the text.
C19_NoPhoneShapeSurvives ==
    item.some =>
        \A p \in 1..Len(item.v.modified_data) : ~PhoneShapeAt(item.v.modified_data, p)

(***************************************************************************)
(* Properties of the processing of one record.                             *)
(***************************************************************************)
\* the JSON document in the body of the record the loop is at
CurrentDoc == ParseJson(MessageTexts, batch[idx].body.v).v
\* the log_id entry of a document's metadata, if it has one
DocLogId(d) ==
    IF /\ HasMember(d, MetadataKey)
       /\ GetMember(d, MetadataKey).t = "obj"
       /\ HasMember(GetMember(d, MetadataKey), LogIdKey)
    THEN Some(GetMember(GetMember(d, MetadataKey), LogIdKey).v)
    ELSE None

\* C13: the log_id of the ProcessedLog is the metadata's log_id when the
\* message has one and the nil UUID otherwise, and in both cases the record
\* goes on to the store write.
C13_IdentityResolution ==
    /\ [](pc = "assembling" => ENABLED AssembleLog)
    /\ [][pc = "assembling" /\ pc' # "assembling"
            => /\ pc' = "saving"
               /\ item'.some
               /\ item'.v.log_id = IF DocLogId(CurrentDoc).some
                                   THEN DocLogId(CurrentDoc).v ELSE NilUuid]_vars
\* a record whose metadata has an entry that is not log_id is about to be
\* written under the nil UUID
C13_Witness ==
    /\ pc = "saving"
    /\ cur.v.metadata = Some(SourceKey :> ClientLogId)
    /\ item.v.log_id = NilUuid

\* C15: a record is written at most once in an invocation, after a write,
\* failed or not, the loop goes to the next record, the handler puts nothing
\* on the queue, and it returns once the loop has passed the whole batch.
C15_NoRetryNoFailure ==
    /\ [](pc = "loop" /\ idx > Len(batch) => ENABLED HandlerReturn({}))
    /\ [][/\ (pc = "saving" /\ pc' # "saving") => (pc' = "loop" /\ idx' = idx + 1)
          /\ (pc # "idle" /\ pc' # "idle")
                => (idx' >= idx /\ queue' = queue /\ batch' = batch)
          /\ (pc # "idle" /\ pc' = "idle")
                => /\ idx > Len(batch)
                   /\ \A i \in 1..Len(queue') : \E j \in 1..Len(queue) : queue'[i] = queue[j]
         ]_vars
\* the loop is over a batch whose first write failed and whose second record
\* had no body or did not decode
C15_Witness ==
    /\ pc = "loop"
    /\ Len(batch) = 2
    /\ idx > Len(batch)
    /\ outcome[1] = "persistence_failed"
    /\ outcome[2] \in {"missing_body", "decode_failed"}

\* the item a document alone determines, but for processed_at
ItemOf(d) ==
    [tenant_id |-> GetMember(d, TenantIdKey).v,
     log_id |-> IF DocLogId(d).some THEN DocLogId(d).v ELSE NilUuid,
     source |-> IF IsStr(d, SourceKey) THEN GetMember(d, SourceKey).v ELSE UnknownSource,
     original_text |-> GetMember(d, TextKey).v,
     modified_data |-> Reference(GetMember(d, TextKey).v, 1)]

\* C17: the item written for a record is determined by that record alone, its
\* partition key is the record's tenant_id, and the write touches no item
\* under another key.
C17_TenantIsolation ==
    [][PutSucceeds
         => LET it == ItemOf(CurrentDoc)
                key == <<it.tenant_id, it.log_id>>
            IN  /\ SansTime(item.v) = it
                /\ DOMAIN store' = DOMAIN store \cup {key}
                /\ store'[key] = item.v
                /\ \A k \in DOMAIN store : k # key => store'[k] = store[k]
                /\ \A k \in DOMAIN store' : store'[k].tenant_id = k[1]]_vars
\* the second record of a batch, of tenant t2, is being written while the
\* store holds an item of tenant t1
C17_Witness ==
    /\ pc = "saving"
    /\ idx = 2
    /\ item.v.tenant_id = Tenant2
    /\ \E k \in DOMAIN store : k[1] = Tenant1

\* the steps of a record, as claimed and as coded
ClaimedPaths ==
    {<<"received", "decoded">>, <<"decoded", "redacted">>, <<"redacted", "assembled">>,
     <<"assembled", "persisted">>, <<"received", "decode_failed">>,
     <<"received", "missing_body">>, <<"decoded", "persistence_failed">>}
CodedPaths ==
    {<<"received", "decoded">>, <<"decoded", "redacted">>, <<"redacted", "assembled">>,
     <<"assembled", "persisted">>, <<"received", "decode_failed">>,
     <<"received", "missing_body">>, <<"assembled", "persistence_failed">>}
Terminal == {"persisted", "persistence_failed", "decode_failed", "missing_body"}
FollowsPaths(paths) ==
    /\ (batch' = batch /\ batch # <<>>)
          => \A i \in 1..Len(batch) :
                outcome'[i] = outcome[i] \/ <<outcome[i], outcome'[i]>> \in paths
    /\ (pc # "idle" /\ pc' = "idle") => \A i \in 1..Len(batch) : outcome[i] \in Terminal
\* the delay comes before the redaction, processed_at is read after the delay
\* and before the write, and the store changes only for a persisted record
OrderOfSteps ==
    /\ (pc' = "redacting" /\ pc # "redacting")
          => (pc = "sleeping" /\ now' = now + SleepMs(cur.v.text))
    /\ (modified_data' # modified_data /\ modified_data'.some) => pc = "redacting"
    /\ (item' # item /\ item'.some)
          => (pc = "assembling" /\ item'.v.processed_at = now /\ store' = store)
    /\ store' # store => (pc = "saving" /\ outcome'[idx] = "persisted")

\* C18 as claimed: a record goes Received, Decoded, Redacted, Assembled,
\* Persisted, or Received, DecodeFailed, or Received, Decoded,
\* PersistenceFailed, and by no other path; it ends in one terminal state, the
\* delay precedes the redaction, processed_at is read after the delay and
\* before the write, and a record that was not decoded causes no write.
C18_PerMessageStateMachine ==
    [][FollowsPaths(ClaimedPaths) /\ OrderOfSteps]_vars
\* C18 as amended: the same, with the failed write coming after Redacted and
\* Assembled.
C18_PerMessageStateMachineCoded ==
    [][FollowsPaths(CodedPaths) /\ OrderOfSteps]_vars
\* the write of a redacted and assembled record failed, after its delay
C18_Witness ==
    /\ pc = "loop"
    /\ idx = 2
    /\ outcome[1] = "persistence_failed"
    /\ now > 0
    /\ store = <<>>

(***************************************************************************)
(* Properties of the pipeline.                                             *)
(***************************************************************************)
\* C14: when the message of an accepted JSON request {tenant_id: t, log_id:
\* id, text: x} is persisted, the store holds under (t, id) an item with
\* source "json", original_text x and modified_data the redaction of x;
\* for the text 555-1234 that is "[REDACTED]".
C14_JsonEndToEnd ==
    [][(/\ PutSucceeds
        /\ batch[idx].id[1] = "ingest"
        /\ batch[idx].id[2] \in DOMAIN submitted)
         => LET r == submitted[batch[idx].id[2]].req
            IN  \A d \in SchemaDocs :
                  (HeaderIs(r, "content-type", ApplicationJson) /\ r.body = Some(Render(d)))
                    => LET key == <<GetMember(d, TenantIdKey).v, GetMember(d, LogIdKey).v>>
                           x == GetMember(d, TextKey).v
                       IN  /\ key \in DOMAIN store'
                           /\ store'[key].tenant_id = key[1]
                           /\ store'[key].log_id = key[2]
                           /\ store'[key].source = JsonSource
                           /\ store'[key].original_text = x
                           /\ store'[key].modified_data = Reference(x, 1)
                           /\ d = DocPhone => store'[key].modified_data = Redacted]_vars
\* the item of the JSON request with text 555-1234 is in the store
C14_Witness ==
    /\ \E n \in DOMAIN submitted :
          /\ <<"ingest", n>> \in DOMAIN firstPut
          /\ submitted[n].req.body = Some(Render(DocPhone))
          /\ HeaderIs(submitted[n].req, "content-type", ApplicationJson)
    /\ <<Tenant1, ClientLogId>> \in DOMAIN store
    /\ store[<<Tenant1, ClientLogId>>].source = JsonSource
    /\ store[<<Tenant1, ClientLogId>>].original_text = PhoneText
    /\ store[<<Tenant1, ClientLogId>>].modified_data = Redacted

\* a result of the normalizer without the log_id the plaintext branch generated
SansLogId(n) ==
    IF n.ok /\ n.v.source = Some(PlaintextSource) THEN [n EXCEPT !.v.metadata = None] ELSE n
SameRequest(i, j) == submitted[i].req = submitted[j].req

\* C16 as claimed: two invocations of the normalizer on the same headers and
\* body give the same result, the same error or logs equal in every field.
C16_NormalizerDeterministic ==
    \A i, j \in DOMAIN submitted :
        SameRequest(i, j) => submitted[i].normalized = submitted[j].normalized
\* C16 as amended: the same, but for the log_id the plaintext branch
\* generates, which differs from one invocation to the next.
C16_NormalizerDeterministicButLogId ==
    \A i, j \in DOMAIN submitted :
        SameRequest(i, j)
            => /\ SansLogId(submitted[i].normalized) = SansLogId(submitted[j].normalized)
               /\ (/\ i # j
                   /\ submitted[i].normalized.ok
                   /\ submitted[i].normalized.v.source = Some(PlaintextSource))
                    => submitted[i].normalized.v.metadata # submitted[j].normalized.v.metadata
\* the same text/plain request was normalized twice
C16_Witness ==
    \E i, j \in DOMAIN submitted :
        /\ i # j
        /\ SameRequest(i, j)
        /\ submitted[i].normalized.ok
        /\ submitted[i].normalized.v.source = Some(PlaintextSource)

\* C20: a message of an accepted submission leaves the queue only when it has
\* been persisted; one whose write failed stays for another delivery.
C20_AcceptedMessageNotLost ==
    [][\A i \in 1..Len(queue) :
          (/\ queue[i].id[1] = "ingest"
           /\ \A j \in 1..Len(queue') : queue'[j].id # queue[i].id)
            => queue[i].id \in DOMAIN firstPut]_vars

====
